---- MODULE Spec2Model ----
(***************************************************************************)
(* The staging / audit / rollback log workflow of the BentonGeoPro sync    *)
(* dashboard (src/server/main.py) and of the standalone rollback API       *)
(* (src/attached_assets/sync_rollback_api.py).                             *)
(*                                                                         *)
(* Each of the three CSV files is the sequence of its data rows, every     *)
(* cell the text it has on disk.  A handler reads a file into a data frame *)
(* (pd.read_csv infers a type per column), changes the frame and writes    *)
(* it back (to_csv formats every cell by its type).                        *)
(* uuid4 is modelled as a source of fresh identifiers 1, 2, ...            *)
(***************************************************************************)
EXTENDS Integers, Sequences, FiniteSets, TLC

\* Bounds of the model.
MaxUploads == 2
MaxOps == 4
MaxCalls == 4

VARIABLES
    STAGING_FILE,   \* rows of logs/staging_area.csv
    AUDIT_FILE,     \* rows of logs/approved_changes.csv
    ROLLBACK_FILE,  \* rows of logs/rollback_log.csv
    files,          \* the log files that exist on disk
    uuid,           \* number of identifiers uuid4 has handed out
    created,        \* upload_ids of the rows written by a stage or an import
    resp,           \* the last completed call and its HTTP status
    nops,           \* number of completed calls
    pc,             \* per request in flight: the next statement of its handler
    call,           \* per request in flight: the operation and its upload_id
    df,             \* per request in flight: the data frame it read
    row,            \* per request in flight: the rows its lookup matched
    result,         \* per request: HTTP status of its finished call (0: none)
    overlapped,     \* per request: another request was in flight during the call
    ncalls,         \* number of requests started
    clock,          \* datetime.now(): number of readings taken for a timestamp
    sec,            \* datetime.now() to the second, as used in storage paths
    made,           \* the rows stage and import built, as they were created
    granted,        \* the actions the caller of the last call is permitted
    export_temp,    \* rows of logs/export_temp.csv
    UPLOAD_DIR      \* the files of the upload directory: storage path -> bytes

tables == <<STAGING_FILE, AUDIT_FILE, ROLLBACK_FILE>>
seqvars == <<files, uuid, created, resp, nops, clock, sec, made, granted,
             export_temp, UPLOAD_DIR>>
upvars == <<clock, sec, made, UPLOAD_DIR>>
reqvars == <<pc, call, df, row, result, overlapped, ncalls>>
vars == <<STAGING_FILE, AUDIT_FILE, ROLLBACK_FILE, files, uuid, created, resp,
          nops, pc, call, df, row, result, overlapped, ncalls, clock, sec, made,
          granted, export_temp, UPLOAD_DIR>>

Requests == {1, 2}
LogFiles == {"staging_area.csv", "approved_changes.csv", "rollback_log.csv"}

\* The upload_ids a caller may pass: every identifier uuid4 can hand out, and
\* one (MaxUploads + 1) it never hands out.
Ids == 1 .. (MaxUploads + 1)

(***************************************************************************)
(* Uploaded files.  text is contents.decode("utf-8", errors="ignore")      *)
(* .splitlines(); of each line the model keeps whether it holds one of the *)
(* markers (prop_id or property_id in any case, or PropertyID) and its     *)
(* line.split(":").  utf8 tells whether the bytes are valid UTF-8.         *)
(***************************************************************************)
Line(marker, parts) == [marker |-> marker, parts |-> parts]

UploadFiles ==
    { [filename |-> "parcel2.xml", bytes |-> "b2", utf8 |-> TRUE,
       text |-> <<Line(TRUE, <<"<prop_id>45</prop_id>">>),
                  Line(TRUE, <<"property_id", " 0045 ">>)>>],
      [filename |-> "parcel3.xml", bytes |-> "b3", utf8 |-> TRUE,
       text |-> <<Line(FALSE, <<"<parcel>">>),
                  Line(TRUE, <<"PropertyID", " N/A">>)>>],
      [filename |-> "notes.txt", bytes |-> "b4", utf8 |-> TRUE,
       text |-> <<Line(FALSE, <<"owner", " J. Doe">>)>>],
      [filename |-> "parcel4.dat", bytes |-> "b6", utf8 |-> FALSE,
       text |-> <<Line(TRUE, <<"prop_id", " 0045 ">>)>>] }

\* str.strip() on the texts that occur.
Strip(s) ==
    CASE s = " 0045 " -> "0045"
      [] s = " N/A" -> "N/A"
      [] s = " J. Doe" -> "J. Doe"
      [] OTHER -> s

\* hashlib.sha256(contents).hexdigest(): one digest per byte content.
Sha256(bytes) == "sha256-" \o bytes

\* stage_file / direct_import, "Extract property ID from contents": the
\* stripped text after the first colon of the first marker line that has a
\* colon, UNKNOWN when there is none.
RECURSIVE ExtractPropId(_)
ExtractPropId(text) ==
    IF text = <<>> THEN "UNKNOWN"
    ELSE IF Head(text).marker /\ Len(Head(text).parts) > 1
         THEN Strip(Head(text).parts[2])
         ELSE ExtractPropId(Tail(text))

\* os.path.join(UPLOAD_DIR, f"{datetime.now().strftime('%Y%m%d%H%M%S')}_{filename}")
FilePath(stamp, filename) == <<"uploads", stamp, filename>>

\* with open(file_path, "wb") as buffer: shutil.copyfileobj(file.file, buffer)
\* creates the file, or replaces the content of the file that is there.
SaveFile(dir, file_path, bytes) ==
    [p \in DOMAIN dir \cup {file_path} |-> IF p = file_path THEN bytes ELSE dir[p]]

\* What a copy that raised has left of the bytes.
Partial(bytes) == "part of " \o bytes

(***************************************************************************)
(* CSV files and data frames.  Only the prop_id column holds texts that    *)
(* pd.read_csv takes for numbers or for missing values; upload_id (a       *)
(* UUID), timestamp (ISO-8601), filename, sha256, status and file_path are *)
(* read as the strings they were written as.  In a data frame a prop_id    *)
(* cell is [k, v]: k is int or float (v the digits), str (v the text),     *)
(* nan_f (NaN of a float64 column) or nan_o (NaN of an object column).     *)
(***************************************************************************)

\* Texts pd.read_csv parses as an integer / as a float / as a missing value.
IsInt(t) == t \in {"0045", "45"}
IsFloat(t) == t = "45.0"
IsNa(t) == t \in {"", "N/A"}

\* The digits of the number a numeric text stands for.
Canon(t) == CASE t \in {"0045", "45", "45.0"} -> "45"

\* The dtype pd.read_csv infers for a column with these texts.
InferDtype(texts) ==
    IF texts = {} THEN "object"
    ELSE IF \A t \in texts : IsInt(t) THEN "int64"
    ELSE IF \A t \in texts : IsInt(t) \/ IsFloat(t) \/ IsNa(t) THEN "float64"
    ELSE "object"

ReadCell(dtype, t) ==
    IF IsNa(t) THEN [k |-> IF dtype = "float64" THEN "nan_f" ELSE "nan_o", v |-> ""]
    ELSE CASE dtype = "int64" -> [k |-> "int", v |-> Canon(t)]
           [] dtype = "float64" -> [k |-> "float", v |-> Canon(t)]
           [] OTHER -> [k |-> "str", v |-> t]

\* pd.read_csv(file)
ReadCsv(rows) ==
    LET dtype == InferDtype({rows[i].prop_id : i \in DOMAIN rows})
    IN  [i \in DOMAIN rows |-> [rows[i] EXCEPT !.prop_id = ReadCell(dtype, @)]]

WriteCell(c) ==
    CASE c.k = "int" -> c.v
      [] c.k = "float" -> c.v \o ".0"
      [] c.k = "str" -> c.v
      [] OTHER -> ""

\* DataFrame.to_csv(file, index=False): the rows written.
ToCsv(d) == [i \in DOMAIN d |-> [d[i] EXCEPT !.prop_id = WriteCell(@)]]

\* df[df["upload_id"] == upload_id]: a copy of the matching rows.
SelectRows(d, x) == SelectSeq(d, LAMBDA r : r.upload_id = x)

\* df[df["upload_id"] != upload_id]
DropRows(d, x) == SelectSeq(d, LAMBDA r : r.upload_id # x)

\* df.loc[df["upload_id"] == upload_id, "status"] = s
SetStatus(d, x, s) ==
    [i \in DOMAIN d |-> IF d[i].upload_id = x THEN [d[i] EXCEPT !.status = s] ELSE d[i]]

\* The common dtype pd.concat gives the joined rows: int64 joined with
\* float64 gives float64; a column with strings (object) keeps every cell.
Promote(all) ==
    LET kinds == {all[i].prop_id.k : i \in DOMAIN all}
    IN  IF kinds \cap {"str", "nan_o"} = {} /\ kinds \cap {"float", "nan_f"} # {}
        THEN [i \in DOMAIN all |->
                IF all[i].prop_id.k = "int"
                THEN [all[i] EXCEPT !.prop_id.k = "float"] ELSE all[i]]
        ELSE all

\* pd.concat([d, rows], ignore_index=True)
Concat(d, rows) == Promote(d \o rows)

\* pd.DataFrame([{...}]): the one-row frame of a new record.
NewRow(upload_id, timestamp, filename, sha256, prop_id, status, file_path) ==
    [upload_id |-> upload_id, timestamp |-> timestamp, filename |-> filename,
     sha256 |-> sha256, prop_id |-> [k |-> "str", v |-> prop_id],
     status |-> status, file_path |-> file_path]

\* The row stage_file builds.
StageRow(upload_id, timestamp, f, file_path) ==
    NewRow(upload_id, timestamp, f.filename, Sha256(f.bytes),
           ExtractPropId(f.text), "PENDING", file_path)

\* A direct import that writes its row as a staged one.
ImportRowPending(upload_id, timestamp, f, file_path) ==
    NewRow(upload_id, timestamp, f.filename, Sha256(f.bytes),
           ExtractPropId(f.text), "PENDING", file_path)

\* The row direct_import builds.
ImportRow(upload_id, timestamp, f, file_path) ==
    NewRow(upload_id, timestamp, f.filename, Sha256(f.bytes),
           ExtractPropId(f.text), "APPROVED", file_path)

\* An identifier source that hands out the identifier it handed out last.
Uuid4Reuse == IF uuid = 0 THEN uuid + 1 ELSE uuid

\* str(uuid.uuid4()): an identifier no earlier call received.
Uuid4 == uuid + 1

\* Whether the clock second has moved on since the last upload: uploads are
\* taken at least a second apart.
ClockMoved == {TRUE}

\* datetime.now() to the second in a storage path: the second of the last
\* upload, or a later one.
Stamp(adv) == IF adv \/ sec = 0 THEN sec + 1 ELSE sec

\* datetime.now().isoformat(): later readings give larger timestamps.
Now == clock + 1

(***************************************************************************)
(* The table contents each handler writes.                                 *)
(***************************************************************************)

\* stage_file: the staging table with the new row appended.
StageAppend(d, new_row) == Concat(d, <<new_row>>)

\* direct_import: the audit table with the new row appended.
ImportAppend(d, new_row) == Concat(d, <<new_row>>)

\* An approve that writes the final status at once.
ApproveStagingSkip(d, x) == SetStatus(d, x, "ROLLED_BACK")

\* approve_upload, "Mark as approved in staging": the staging table it writes.
ApproveStaging(d, x) == SetStatus(d, x, "APPROVED")

\* approve_upload, "Add to audit log": the audit table it writes.  r is the
\* copy of the matching rows taken before the status was set.
ApproveAudit(audit_df, r) == Concat(audit_df, r)

\* A rollback that leaves the rows in the audit table.
RollbackAuditKeep(audit_df, x) == audit_df

\* rollback_upload / rollback, "Remove from audit log".
RollbackAudit(audit_df, x) == DropRows(audit_df, x)

\* A rollback that writes the rollback log back without the moved rows.
RollbackLogDrop(rollback_df, r) == rollback_df

\* rollback_upload, "Add to rollback log".
RollbackLog(rollback_df, r) == Concat(rollback_df, r)

\* rollback (standalone API), "Log rollback action": append the matched rows
\* to the file when it exists, otherwise write them as a new file.
RollbackApiLog(exists, rollback_rows, match) ==
    IF exists THEN rollback_rows \o ToCsv(match) ELSE ToCsv(match)

Resp(op, id, code) == [op |-> op, id |-> id, code |-> code]

Call(op, id) == [op |-> op, id |-> id]

(***************************************************************************)
(* Permissions.  rbac_auth.check_permission(action) is a dependency of     *)
(* every route: it allows or denies the caller the action, and a denied    *)
(* request is answered 403 before the handler runs.                        *)
(***************************************************************************)
Actions == {"upload", "view", "approve", "rollback", "diff", "export"}

\* The permission sets callers come with: three roles, chosen so that every
\* action is granted to one role and denied to another, and no two actions
\* are granted to the same roles.
Grants ==
    { {"upload", "view", "diff"},
      {"view", "approve", "rollback"},
      {"diff", "rollback", "export"} }

\* check_permission(action) for a caller with the permissions perms.
CheckPermission(perms, action) == action \in perms

\* Routes that ask for the permission of a neighbouring route.
RequiredPermissionSwapped(op) ==
    CASE op = "stage" -> "upload"
      [] op = "import" -> "upload"
      [] op = "list" -> "view"
      [] op = "diff" -> "view"
      [] op = "approve" -> "rollback"
      [] op = "rollback" -> "approve"
      [] op = "export" -> "view"

\* The action each route passes to check_permission.
RequiredPermission(op) ==
    CASE op = "stage" -> "upload"
      [] op = "import" -> "upload"
      [] op = "list" -> "view"
      [] op = "diff" -> "diff"
      [] op = "approve" -> "approve"
      [] op = "rollback" -> "rollback"
      [] op = "export" -> "export"

Allowed(g, op) == CheckPermission(g, RequiredPermission(op))

(***************************************************************************)
(* Initial state: the module-level bootstrap of main.py has created the    *)
(* three log files with their header and no rows.                          *)
(***************************************************************************)
Init ==
    /\ STAGING_FILE = <<>>
    /\ AUDIT_FILE = <<>>
    /\ ROLLBACK_FILE = <<>>
    /\ files = LogFiles
    /\ uuid = 0
    /\ created = {}
    /\ resp = Resp("none", 0, 0)
    /\ nops = 0
    /\ pc = [w \in Requests |-> "idle"]
    /\ call = [w \in Requests |-> Call("none", 0)]
    /\ df = [w \in Requests |-> <<>>]
    /\ row = [w \in Requests |-> <<>>]
    /\ result = [w \in Requests |-> 0]
    /\ overlapped = [w \in Requests |-> FALSE]
    /\ ncalls = 0
    /\ clock = 0
    /\ sec = 0
    /\ made = {}
    /\ granted = {}
    /\ export_temp = <<>>
    /\ UPLOAD_DIR = [p \in {} |-> ""]

(***************************************************************************)
(* The handlers, each run from its first statement to its return.          *)
(***************************************************************************)

\* The call op(id) by a caller with the permissions g is answered with code.
Done(op, id, code, g) ==
    /\ resp' = Resp(op, id, code)
    /\ nops' = nops + 1
    /\ granted' = g
    /\ UNCHANGED reqvars

\* check_permission denies: 403, the handler does not run.
Denied(op, id, g) ==
    /\ Done(op, id, 403, g)
    /\ UNCHANGED <<tables, files, uuid, created, upvars, export_temp>>

\* GET /api/sync/staging-data
List(g) ==
    /\ nops < MaxOps
    /\ IF ~ Allowed(g, "list")
       THEN Denied("list", 0, g)
       ELSE /\ Done("list", 0, 200, g)
            /\ UNCHANGED <<tables, files, uuid, created, upvars, export_temp>>

\* POST /api/sync/stage
Stage(f, adv, g) ==
    /\ nops < MaxOps
    /\ uuid < MaxUploads
    /\ IF ~ Allowed(g, "stage")
       THEN Denied("stage", 0, g)
       ELSE LET stamp == Stamp(adv)
                file_path == FilePath(stamp, f.filename)
                upload_id == Uuid4
                d == ReadCsv(STAGING_FILE)
                new_row == StageRow(upload_id, Now, f, file_path)
            IN  /\ STAGING_FILE' = ToCsv(StageAppend(d, new_row))
                /\ uuid' = upload_id
                /\ created' = created \cup {upload_id}
                /\ made' = made \cup {ToCsv(<<new_row>>)[1]}
                /\ clock' = Now
                /\ sec' = stamp
                /\ UPLOAD_DIR' = SaveFile(UPLOAD_DIR, file_path, f.bytes)
                /\ Done("stage", upload_id, 200, g)
                /\ UNCHANGED <<AUDIT_FILE, ROLLBACK_FILE, files, export_temp>>

\* POST /api/sync/import
Import(f, adv, g) ==
    /\ nops < MaxOps
    /\ uuid < MaxUploads
    /\ IF ~ Allowed(g, "import")
       THEN Denied("import", 0, g)
       ELSE LET stamp == Stamp(adv)
                file_path == FilePath(stamp, f.filename)
                upload_id == Uuid4
                d == ReadCsv(AUDIT_FILE)
                new_row == ImportRow(upload_id, Now, f, file_path)
            IN  /\ AUDIT_FILE' = ToCsv(ImportAppend(d, new_row))
                /\ uuid' = upload_id
                /\ created' = created \cup {upload_id}
                /\ made' = made \cup {ToCsv(<<new_row>>)[1]}
                /\ clock' = Now
                /\ sec' = stamp
                /\ UPLOAD_DIR' = SaveFile(UPLOAD_DIR, file_path, f.bytes)
                /\ Done("import", upload_id, 200, g)
                /\ UNCHANGED <<STAGING_FILE, ROLLBACK_FILE, files, export_temp>>

\* A diff that looks the upload up in the audit table.
DiffSourceAudit == AUDIT_FILE

\* get_diff: the table its lookup reads, pd.read_csv(STAGING_FILE).
DiffSource == STAGING_FILE

\* GET /api/sync/diff/{upload_id}
Diff(x, g) ==
    /\ nops < MaxOps
    /\ IF ~ Allowed(g, "diff")
       THEN Denied("diff", x, g)
       ELSE LET d == ReadCsv(DiffSource)
                r == SelectRows(d, x)
            IN  /\ Done("diff", x, IF r = <<>> THEN 404 ELSE 200, g)
                /\ UNCHANGED <<tables, files, uuid, created, upvars, export_temp>>

\* POST /api/sync/approve/{upload_id}
Approve(x, g) ==
    /\ nops < MaxOps
    /\ IF ~ Allowed(g, "approve")
       THEN Denied("approve", x, g)
       ELSE LET d == ReadCsv(STAGING_FILE)
                r == SelectRows(d, x)
            IN  /\ IF r = <<>>
                   THEN /\ Done("approve", x, 404, g)
                        /\ UNCHANGED tables
                   ELSE /\ STAGING_FILE' = ToCsv(ApproveStaging(d, x))
                        /\ AUDIT_FILE' = ToCsv(ApproveAudit(ReadCsv(AUDIT_FILE), r))
                        /\ Done("approve", x, 200, g)
                        /\ UNCHANGED ROLLBACK_FILE
                /\ UNCHANGED <<files, uuid, created, upvars, export_temp>>

\* A rollback that looks the upload up in the staging table.
RollbackSourceStaging == STAGING_FILE

\* rollback_upload: the table its lookup reads, pd.read_csv(AUDIT_FILE).
RollbackSource == AUDIT_FILE

\* rollback_upload from its first read to its return: the HTTP status and the
\* audit and rollback tables it leaves, for the tables it finds.
RollbackUploadResult(audit_rows, rollback_rows, x) ==
    LET audit_df == ReadCsv(audit_rows)
        r == SelectRows(audit_df, x)
    IN  IF r = <<>>
        THEN [code |-> 404, audit |-> audit_rows, rollback |-> rollback_rows]
        ELSE [code |-> 200,
              audit |-> ToCsv(RollbackAudit(audit_df, x)),
              rollback |-> ToCsv(RollbackLog(ReadCsv(rollback_rows), r))]

\* POST /api/sync/rollback (dashboard server)
Rollback(x, g) ==
    /\ nops < MaxOps
    /\ IF ~ Allowed(g, "rollback")
       THEN Denied("rollback", x, g)
       ELSE LET out == RollbackUploadResult(RollbackSource, ROLLBACK_FILE, x)
            IN  /\ IF out.code = 404
                   THEN UNCHANGED tables
                   ELSE /\ AUDIT_FILE' = out.audit
                        /\ ROLLBACK_FILE' = out.rollback
                        /\ UNCHANGED STAGING_FILE
                /\ Done("rollback", x, out.code, g)
                /\ UNCHANGED <<files, uuid, created, upvars, export_temp>>

\* rollback (standalone API) from its first check to its return: the HTTP
\* status and the audit and rollback tables it leaves, for the log files
\* that exist and the tables it finds.
RollbackApiResult(exists, audit_rows, rollback_rows, x) ==
    IF "approved_changes.csv" \notin exists
    THEN [code |-> 404, audit |-> audit_rows, rollback |-> rollback_rows]
    ELSE LET audit_df == ReadCsv(audit_rows)
             match == SelectRows(audit_df, x)
         IN  IF match = <<>>
             THEN [code |-> 404, audit |-> audit_rows, rollback |-> rollback_rows]
             ELSE [code |-> 200,
                   audit |-> ToCsv(RollbackAudit(audit_df, x)),
                   rollback |-> RollbackApiLog("rollback_log.csv" \in exists,
                                               rollback_rows, match)]

\* POST /rollback (standalone rollback API)
RollbackApi(x, g) ==
    /\ nops < MaxOps
    /\ IF ~ Allowed(g, "rollback")
       THEN Denied("rollback", x, g)
       ELSE LET out == RollbackApiResult(files, AUDIT_FILE, ROLLBACK_FILE, x)
            IN  /\ IF out.code = 404
                   THEN UNCHANGED <<tables, files>>
                   ELSE /\ AUDIT_FILE' = out.audit
                        /\ ROLLBACK_FILE' = out.rollback
                        /\ files' = files \cup {"rollback_log.csv"}
                        /\ UNCHANGED STAGING_FILE
                /\ Done("rollback", x, out.code, g)
                /\ UNCHANGED <<uuid, created, upvars, export_temp>>

\* export_logs: a row of the combined frame, with its log_type and without
\* the file_path column.
ExportRow(r, log_type) ==
    [upload_id |-> r.upload_id, timestamp |-> r.timestamp, filename |-> r.filename,
     sha256 |-> r.sha256, prop_id |-> r.prop_id, status |-> r.status,
     log_type |-> log_type]

\* staging_df["log_type"] = ...; the frame with the column added.
WithLogType(d, log_type) == [i \in DOMAIN d |-> [r |-> d[i], t |-> log_type]]

\* export_logs: the combined frame, file_path dropped.
ExportCombined(staging_df, audit_df, rollback_df) ==
    LET tagged == WithLogType(staging_df, "staged")
                  \o WithLogType(audit_df, "approved")
                  \o WithLogType(rollback_df, "rolled_back")
        all == Promote([i \in DOMAIN tagged |-> tagged[i].r])
    IN  [i \in DOMAIN all |-> ExportRow(all[i], tagged[i].t)]

\* The orders sort_values("timestamp", ascending=False) may leave the rows
\* in: the sort is not stable, rows with equal timestamps come in any order.
SortValuesDescending(d) ==
    LET n == Len(d)
        perms == {p \in [1 .. n -> 1 .. n] : \A i, j \in 1 .. n : i # j => p[i] # p[j]}
    IN  {[i \in 1 .. n |-> d[p[i]]] :
           p \in {q \in perms : \A i, j \in 1 .. n :
                                  i < j => d[q[i]].timestamp >= d[q[j]].timestamp}}

\* GET /api/sync/export
Export(g) ==
    /\ nops < MaxOps
    /\ IF ~ Allowed(g, "export")
       THEN Denied("export", 0, g)
       ELSE /\ \E sorted \in SortValuesDescending(
                     ExportCombined(ReadCsv(STAGING_FILE), ReadCsv(AUDIT_FILE),
                                    ReadCsv(ROLLBACK_FILE))) :
                  export_temp' = ToCsv(sorted)
            /\ Done("export", 0, 200, g)
            /\ UNCHANGED <<tables, files, uuid, created, upvars>>

\* A bootstrap that writes the empty table whether or not the file exists.
BootstrapTableAlways(exists, rows) == <<>>

\* "Ensure base log files exist": the rows of a log file after the bootstrap.
BootstrapTable(exists, rows) == IF exists THEN rows ELSE <<>>

\* The module-level code of main.py, run when the server (re)starts.
Bootstrap ==
    /\ nops < MaxOps
    /\ STAGING_FILE' = BootstrapTable("staging_area.csv" \in files, STAGING_FILE)
    /\ AUDIT_FILE' = BootstrapTable("approved_changes.csv" \in files, AUDIT_FILE)
    /\ ROLLBACK_FILE' = BootstrapTable("rollback_log.csv" \in files, ROLLBACK_FILE)
    /\ files' = LogFiles
    /\ Done("bootstrap", 0, 200, granted)
    /\ UNCHANGED <<uuid, created, upvars, export_temp>>

Next ==
    \/ \E g \in Grants : List(g)
    \/ \E f \in UploadFiles, adv \in ClockMoved, g \in Grants : Stage(f, adv, g)
    \/ \E f \in UploadFiles, adv \in ClockMoved, g \in Grants : Import(f, adv, g)
    \/ \E x \in Ids, g \in Grants : Diff(x, g)
    \/ \E x \in Ids, g \in Grants : Approve(x, g)
    \/ \E x \in Ids, g \in Grants : Rollback(x, g)
    \/ \E x \in Ids, g \in Grants : RollbackApi(x, g)
    \/ \E g \in Grants : Export(g)
    \/ Bootstrap

Spec == Init /\ [][Next]_vars

(***************************************************************************)
(* Storage failures: the handler raises at a file operation and the server *)
(* answers 500.  Nothing undoes what the handler wrote before.             *)
(***************************************************************************)

\* The upload directory after a save to file_path that raised: open() raised
\* and nothing was written, or the copy raised and left a part of the bytes.
SaveFileFailed(file_path, bytes) ==
    {UPLOAD_DIR, SaveFile(UPLOAD_DIR, file_path, Partial(bytes))}

\* stage_file: writing the uploaded bytes to the upload directory raises.
StageFail(f, adv, g) ==
    /\ nops < MaxOps
    /\ Allowed(g, "stage")
    /\ sec' = Stamp(adv)
    /\ UPLOAD_DIR' \in SaveFileFailed(FilePath(Stamp(adv), f.filename), f.bytes)
    /\ Done("stage", 0, 500, g)
    /\ UNCHANGED <<tables, files, uuid, created, clock, made, export_temp>>

\* direct_import: writing the uploaded bytes to the upload directory raises.
ImportFail(f, adv, g) ==
    /\ nops < MaxOps
    /\ Allowed(g, "import")
    /\ sec' = Stamp(adv)
    /\ UPLOAD_DIR' \in SaveFileFailed(FilePath(Stamp(adv), f.filename), f.bytes)
    /\ Done("import", 0, 500, g)
    /\ UNCHANGED <<tables, files, uuid, created, clock, made, export_temp>>

\* approve_upload: staging_area.csv is written, the read or the write of
\* approved_changes.csv raises.
ApproveFail(x, g) ==
    /\ nops < MaxOps
    /\ Allowed(g, "approve")
    /\ LET d == ReadCsv(STAGING_FILE)
           r == SelectRows(d, x)
       IN  /\ r # <<>>
           /\ STAGING_FILE' = ToCsv(ApproveStaging(d, x))
    /\ Done("approve", x, 500, g)
    /\ UNCHANGED <<AUDIT_FILE, ROLLBACK_FILE, files, uuid, created, upvars, export_temp>>

\* rollback_upload: approved_changes.csv is written, the read or the write of
\* rollback_log.csv raises.
RollbackFail(x, g) ==
    /\ nops < MaxOps
    /\ Allowed(g, "rollback")
    /\ LET audit_df == ReadCsv(RollbackSource)
           r == SelectRows(audit_df, x)
       IN  /\ r # <<>>
           /\ AUDIT_FILE' = ToCsv(RollbackAudit(audit_df, x))
    /\ Done("rollback", x, 500, g)
    /\ UNCHANGED <<STAGING_FILE, ROLLBACK_FILE, files, uuid, created, upvars, export_temp>>

NextFail ==
    \/ Next
    \/ \E f \in UploadFiles, adv \in ClockMoved, g \in Grants : StageFail(f, adv, g)
    \/ \E f \in UploadFiles, adv \in ClockMoved, g \in Grants : ImportFail(f, adv, g)
    \/ \E x \in Ids, g \in Grants : ApproveFail(x, g)
    \/ \E x \in Ids, g \in Grants : RollbackFail(x, g)

SpecFail == Init /\ [][NextFail]_vars

(***************************************************************************)
(* First start: the log directory is empty, main.py has not run yet.       *)
(***************************************************************************)
InitFresh ==
    /\ STAGING_FILE = <<>>
    /\ AUDIT_FILE = <<>>
    /\ ROLLBACK_FILE = <<>>
    /\ files = {}
    /\ uuid = 0
    /\ created = {}
    /\ resp = Resp("none", 0, 0)
    /\ nops = 0
    /\ pc = [w \in Requests |-> "idle"]
    /\ call = [w \in Requests |-> Call("none", 0)]
    /\ df = [w \in Requests |-> <<>>]
    /\ row = [w \in Requests |-> <<>>]
    /\ result = [w \in Requests |-> 0]
    /\ overlapped = [w \in Requests |-> FALSE]
    /\ ncalls = 0
    /\ clock = 0
    /\ sec = 0
    /\ made = {}
    /\ granted = {}
    /\ export_temp = <<>>
    /\ UPLOAD_DIR = [p \in {} |-> ""]

\* The routes of main.py are served once its module-level code has run; the
\* standalone rollback API runs without it.
NextBoot ==
    \/ Bootstrap
    \/ \E x \in Ids, g \in Grants : RollbackApi(x, g)
    \/ files = LogFiles /\ Next

SpecBoot == InitFresh /\ [][NextBoot]_vars

(***************************************************************************)
(* Uploads that may fall into the same clock second, among them a second   *)
(* version of a file under the same name.                                  *)
(***************************************************************************)
StoreUploads ==
    {f \in UploadFiles : f.filename \in {"parcel2.xml", "notes.txt"}}
    \cup { [filename |-> "parcel2.xml", bytes |-> "b7", utf8 |-> TRUE,
            text |-> <<Line(TRUE, <<"property_id", " 0045 ">>),
                       Line(FALSE, <<"owner", " J. Doe">>)>>] }

NextStore ==
    \/ \E f \in StoreUploads, adv \in BOOLEAN, g \in Grants : Stage(f, adv, g)
    \/ \E f \in StoreUploads, adv \in BOOLEAN, g \in Grants : Import(f, adv, g)
    \/ \E x \in Ids, g \in Grants : Approve(x, g)
    \/ \E x \in Ids, g \in Grants : Rollback(x, g)

SpecStore == Init /\ [][NextStore]_vars

(***************************************************************************)
(* Properties of the sequential workflow.                                  *)
(***************************************************************************)

AllRows == STAGING_FILE \o AUDIT_FILE \o ROLLBACK_FILE

\* The step is a completed call.
Called == nops' = nops + 1

\* The action each operation is gated by, as the workflow states it.
OwnAction(op) ==
    CASE op \in {"stage", "import"} -> "upload"
      [] op = "list" -> "view"
      [] op = "diff" -> "diff"
      [] op = "approve" -> "approve"
      [] op = "rollback" -> "rollback"
      [] op = "export" -> "export"

\* The step is a completed call of op(x) by a caller permitted to make it.
CalledBy(op, x) ==
    /\ Called /\ resp'.op = op /\ resp'.id = x
    /\ OwnAction(op) \in granted'

HasStatus(d, x, s) == \E i \in DOMAIN d : d[i].upload_id = x /\ d[i].status = s

\* C1: every upload_id occurs in at most one row of the staging, audit and
\* rollback tables taken together.
C1_UploadIdInOneRow ==
    \A x \in Ids : Len(SelectRows(AllRows, x)) <= 1

\* C2: every upload_id created by a successful stage or import is in at least
\* one of the staging, audit and rollback tables.
C2_NoRecordLost ==
    \A x \in created : SelectRows(AllRows, x) # <<>>

\* An imported record was rolled back: it is in the rollback table only.
C2_Witness ==
    /\ resp.op = "rollback" /\ resp.code = 200
    /\ resp.id \in created
    /\ SelectRows(STAGING_FILE, resp.id) = <<>>
    /\ SelectRows(AUDIT_FILE, resp.id) = <<>>
    /\ SelectRows(ROLLBACK_FILE, resp.id) # <<>>

\* C3: a successful approve(x) followed immediately by a second approve(x):
\* the second call answers 404 and adds no row to the audit table.
C3_SecondApproveNotFound ==
    [][(/\ resp.op = "approve" /\ resp.code = 200
        /\ CalledBy("approve", resp.id))
       => (resp'.code = 404 /\ AUDIT_FILE' = AUDIT_FILE)]_vars

\* C4: after a successful approve(x), x is not in the staging table, the audit
\* table holds x with status APPROVED, and the rollback table is unchanged.
C4_ApproveMoves ==
    [][(Called /\ resp'.op = "approve" /\ resp'.code = 200)
       => (/\ SelectRows(STAGING_FILE', resp'.id) = <<>>
           /\ HasStatus(AUDIT_FILE', resp'.id, "APPROVED")
           /\ ROLLBACK_FILE' = ROLLBACK_FILE)]_vars

\* C5: after a successful rollback(x), x is not in the audit table, the
\* rollback table holds x with status ROLLED_BACK, and the staging table is
\* unchanged.
C5_RollbackMoves ==
    [][(Called /\ resp'.op = "rollback" /\ resp'.code = 200)
       => (/\ SelectRows(AUDIT_FILE', resp'.id) = <<>>
           /\ HasStatus(ROLLBACK_FILE', resp'.id, "ROLLED_BACK")
           /\ STAGING_FILE' = STAGING_FILE)]_vars

\* x was staged and never approved: its only rows are PENDING rows of the
\* staging table.
StagedOnly(x) ==
    /\ HasStatus(STAGING_FILE, x, "PENDING")
    /\ ~ HasStatus(STAGING_FILE, x, "APPROVED")
    /\ SelectRows(AUDIT_FILE, x) = <<>>
    /\ SelectRows(ROLLBACK_FILE, x) = <<>>

\* C6: rollback(x) of an x that was staged and never approved answers 404 and
\* leaves the three tables unchanged.
C6_RollbackOfPendingNotFound ==
    [][\A x \in Ids :
         (StagedOnly(x) /\ CalledBy("rollback", x))
         => (resp'.code = 404 /\ UNCHANGED tables)]_vars

\* A rollback of a staged, never approved upload has been answered.
C6_Witness ==
    /\ resp.op = "rollback" /\ resp.code = 404
    /\ StagedOnly(resp.id)

Rank(s) == CASE s = "PENDING" -> 0 [] s = "APPROVED" -> 1 [] s = "ROLLED_BACK" -> 2

\* The statuses the rows of upload_id x carry in the table contents s, a, r.
StatusSet(s, a, r, x) ==
    LET all == s \o a \o r
    IN  {all[i].status : i \in {j \in DOMAIN all : all[j].upload_id = x}}

MaxRank(S) == CHOOSE n \in {Rank(s) : s \in S} : \A s \in S : Rank(s) <= n

\* From the statuses old to the statuses new, every status that is new is the
\* successor of one the record had, and the furthest status is not given up.
LegalMove(old, new) ==
    /\ \A s \in new : s \in old \/ \E t \in old : Rank(s) = Rank(t) + 1
    /\ new # {} => MaxRank(new) >= MaxRank(old)

\* C7 as stated: every record is created PENDING and its status only moves
\* PENDING -> APPROVED -> ROLLED_BACK, one step at a time.
C7_StatusOrderAsStated ==
    [][\A x \in Ids :
         LET old == StatusSet(STAGING_FILE, AUDIT_FILE, ROLLBACK_FILE, x)
             new == StatusSet(STAGING_FILE', AUDIT_FILE', ROLLBACK_FILE', x)
         IN  IF old = {} THEN new \subseteq {"PENDING"} ELSE LegalMove(old, new)]_vars

\* C7 amended: a record is created PENDING by stage and APPROVED by a direct
\* import; after creation its status only moves PENDING -> APPROVED ->
\* ROLLED_BACK, one step at a time.
C7_StatusOrder ==
    [][\A x \in Ids :
         LET old == StatusSet(STAGING_FILE, AUDIT_FILE, ROLLBACK_FILE, x)
             new == StatusSet(STAGING_FILE', AUDIT_FILE', ROLLBACK_FILE', x)
         IN  IF old = {}
             THEN \/ new = {}
                  \/ resp'.op = "stage" /\ new = {"PENDING"}
                  \/ resp'.op = "import" /\ new = {"APPROVED"}
             ELSE LegalMove(old, new)]_vars

\* One upload was staged, approved and rolled back, another came by direct
\* import.
C7_Witness ==
    /\ resp.op = "import"
    /\ \E x \in Ids : /\ HasStatus(STAGING_FILE, x, "APPROVED")
                      /\ SelectRows(ROLLBACK_FILE, x) # <<>>
    /\ HasStatus(AUDIT_FILE, resp.id, "APPROVED")

\* C10: an approve or a rollback that fails between its two table writes
\* leaves the three tables as they were, and the retried call succeeds.
C10_FailureLeavesTables ==
    [][/\ (Called /\ resp'.code = 500) => UNCHANGED tables
       /\ (/\ resp.code = 500 /\ CalledBy(resp.op, resp.id)
           /\ resp'.code # 500) => resp'.code = 200]_vars


(***************************************************************************)
(* Concurrent requests.  Each handler is a sequence of whole-file reads    *)
(* (pd.read_csv) and whole-file writes (DataFrame.to_csv) with no lock     *)
(* around them; two requests served in parallel interleave at these file   *)
(* operations.  The callers are permitted ones.                            *)
(***************************************************************************)

InFlight(w) == pc[w] # "idle"

Other(w) == CHOOSE v \in Requests : v # w

\* Request w enters a handler with pc p.
Begin(w, c, p) ==
    /\ pc[w] = "idle"
    /\ ncalls < MaxCalls
    /\ ncalls' = ncalls + 1
    /\ call' = [call EXCEPT ![w] = c]
    /\ pc' = [pc EXCEPT ![w] = p]
    /\ result' = [result EXCEPT ![w] = 0]
    /\ overlapped' = [v \in Requests |->
                        IF v = w THEN InFlight(Other(w))
                        ELSE overlapped[v] \/ InFlight(v)]

\* Request w returns with HTTP status code.
Return(w, code) ==
    /\ pc' = [pc EXCEPT ![w] = "idle"]
    /\ result' = [result EXCEPT ![w] = code]

\* Request w moves on to the statement p.
Goto(w, p) ==
    /\ pc' = [pc EXCEPT ![w] = p]
    /\ UNCHANGED result

\* stage_file: upload_id = str(uuid.uuid4()); df = pd.read_csv(STAGING_FILE)
StageRead(w, f, adv) ==
    /\ uuid < MaxUploads
    /\ Begin(w, Call("stage", Uuid4), "stage_write")
    /\ uuid' = Uuid4
    /\ sec' = Stamp(adv)
    /\ UPLOAD_DIR' = SaveFile(UPLOAD_DIR, FilePath(Stamp(adv), f.filename), f.bytes)
    /\ df' = [df EXCEPT ![w] = ReadCsv(STAGING_FILE)]
    /\ row' = [row EXCEPT ![w] =
                 <<StageRow(Uuid4, 0, f, FilePath(Stamp(adv), f.filename))>>]
    /\ UNCHANGED <<tables, files, created, resp, nops, clock, made, granted,
                   export_temp>>

\* stage_file: new_row with datetime.now(); df = pd.concat(...);
\* df.to_csv(STAGING_FILE)
StageWrite(w) ==
    /\ pc[w] = "stage_write"
    /\ LET new_row == [row[w][1] EXCEPT !.timestamp = Now]
       IN  /\ STAGING_FILE' = ToCsv(StageAppend(df[w], new_row))
           /\ made' = made \cup {ToCsv(<<new_row>>)[1]}
    /\ created' = created \cup {call[w].id}
    /\ clock' = Now
    /\ Return(w, 200)
    /\ UNCHANGED <<AUDIT_FILE, ROLLBACK_FILE, files, uuid, resp, nops, call, df,
                   row, overlapped, ncalls, sec, granted, export_temp,
                   UPLOAD_DIR>>

\* direct_import: upload_id = str(uuid.uuid4()); df = pd.read_csv(AUDIT_FILE)
ImportRead(w, f, adv) ==
    /\ uuid < MaxUploads
    /\ Begin(w, Call("import", Uuid4), "import_write")
    /\ uuid' = Uuid4
    /\ sec' = Stamp(adv)
    /\ UPLOAD_DIR' = SaveFile(UPLOAD_DIR, FilePath(Stamp(adv), f.filename), f.bytes)
    /\ df' = [df EXCEPT ![w] = ReadCsv(AUDIT_FILE)]
    /\ row' = [row EXCEPT ![w] =
                 <<ImportRow(Uuid4, 0, f, FilePath(Stamp(adv), f.filename))>>]
    /\ UNCHANGED <<tables, files, created, resp, nops, clock, made, granted,
                   export_temp>>

\* direct_import: new_row with datetime.now(); df = pd.concat(...);
\* df.to_csv(AUDIT_FILE)
ImportWrite(w) ==
    /\ pc[w] = "import_write"
    /\ LET new_row == [row[w][1] EXCEPT !.timestamp = Now]
       IN  /\ AUDIT_FILE' = ToCsv(ImportAppend(df[w], new_row))
           /\ made' = made \cup {ToCsv(<<new_row>>)[1]}
    /\ created' = created \cup {call[w].id}
    /\ clock' = Now
    /\ Return(w, 200)
    /\ UNCHANGED <<STAGING_FILE, ROLLBACK_FILE, files, uuid, resp, nops, call, df,
                   row, overlapped, ncalls, sec, granted, export_temp,
                   UPLOAD_DIR>>

\* approve_upload: read staging_area.csv, look the upload up, 404 when absent.
ApproveRead(w, x) ==
    /\ LET d == ReadCsv(STAGING_FILE)
           r == SelectRows(d, x)
       IN  /\ Begin(w, Call("approve", x),
                    IF r = <<>> THEN "approve_404" ELSE "approve_write_staging")
           /\ df' = [df EXCEPT ![w] = d]
           /\ row' = [row EXCEPT ![w] = r]
    /\ UNCHANGED <<tables, seqvars>>

\* approve_upload: raise HTTPException(status_code=404)
ApproveNotFound(w) ==
    /\ pc[w] = "approve_404"
    /\ Return(w, 404)
    /\ UNCHANGED <<tables, seqvars, call, df, row, overlapped, ncalls>>

\* approve_upload: set the status, write staging_area.csv.
ApproveWriteStaging(w) ==
    /\ pc[w] = "approve_write_staging"
    /\ STAGING_FILE' = ToCsv(ApproveStaging(df[w], call[w].id))
    /\ Goto(w, "approve_read_audit")
    /\ UNCHANGED <<AUDIT_FILE, ROLLBACK_FILE, seqvars, call, df, row, overlapped,
                   ncalls>>

\* approve_upload: audit_df = pd.read_csv(AUDIT_FILE)
ApproveReadAudit(w) ==
    /\ pc[w] = "approve_read_audit"
    /\ df' = [df EXCEPT ![w] = ReadCsv(AUDIT_FILE)]
    /\ Goto(w, "approve_write_audit")
    /\ UNCHANGED <<tables, seqvars, call, row, overlapped, ncalls>>

\* approve_upload: append the copied rows, write approved_changes.csv.
ApproveWriteAudit(w) ==
    /\ pc[w] = "approve_write_audit"
    /\ AUDIT_FILE' = ToCsv(ApproveAudit(df[w], row[w]))
    /\ Return(w, 200)
    /\ UNCHANGED <<STAGING_FILE, ROLLBACK_FILE, seqvars, call, df, row, overlapped,
                   ncalls>>

\* rollback_upload / rollback: read approved_changes.csv, look the upload up.
\* api tells the standalone API's handler from the dashboard server's.
RollbackRead(w, x, api) ==
    /\ LET audit_df == ReadCsv(IF api THEN AUDIT_FILE ELSE RollbackSource)
           r == SelectRows(audit_df, x)
       IN  /\ Begin(w, Call("rollback", x),
                    IF r = <<>> \/ (api /\ "approved_changes.csv" \notin files)
                    THEN "rollback_404"
                    ELSE IF api THEN "api_write_audit" ELSE "rollback_write_audit")
           /\ df' = [df EXCEPT ![w] = audit_df]
           /\ row' = [row EXCEPT ![w] = r]
    /\ UNCHANGED <<tables, seqvars>>

\* rollback_upload / rollback: raise HTTPException(status_code=404)
RollbackNotFound(w) ==
    /\ pc[w] = "rollback_404"
    /\ Return(w, 404)
    /\ UNCHANGED <<tables, seqvars, call, df, row, overlapped, ncalls>>

\* rollback_upload: drop the rows, write approved_changes.csv.
RollbackWriteAudit(w) ==
    /\ pc[w] = "rollback_write_audit"
    /\ AUDIT_FILE' = ToCsv(RollbackAudit(df[w], call[w].id))
    /\ Goto(w, "rollback_read_log")
    /\ UNCHANGED <<STAGING_FILE, ROLLBACK_FILE, seqvars, call, df, row, overlapped,
                   ncalls>>

\* rollback_upload: rollback_df = pd.read_csv(ROLLBACK_FILE)
RollbackReadLog(w) ==
    /\ pc[w] = "rollback_read_log"
    /\ df' = [df EXCEPT ![w] = ReadCsv(ROLLBACK_FILE)]
    /\ Goto(w, "rollback_write_log")
    /\ UNCHANGED <<tables, seqvars, call, row, overlapped, ncalls>>

\* rollback_upload: append the rows, write rollback_log.csv.
RollbackWriteLog(w) ==
    /\ pc[w] = "rollback_write_log"
    /\ ROLLBACK_FILE' = ToCsv(RollbackLog(df[w], row[w]))
    /\ Return(w, 200)
    /\ UNCHANGED <<STAGING_FILE, AUDIT_FILE, seqvars, call, df, row, overlapped,
                   ncalls>>

\* rollback (standalone API): drop the rows, write approved_changes.csv.
ApiWriteAudit(w) ==
    /\ pc[w] = "api_write_audit"
    /\ AUDIT_FILE' = ToCsv(RollbackAudit(df[w], call[w].id))
    /\ Goto(w, "api_append_log")
    /\ UNCHANGED <<STAGING_FILE, ROLLBACK_FILE, seqvars, call, df, row, overlapped,
                   ncalls>>

\* rollback (standalone API): match.to_csv(ROLLBACK_FILE, mode="a") appends
\* the rows to the file as it is now.
ApiAppendLog(w) ==
    /\ pc[w] = "api_append_log"
    /\ ROLLBACK_FILE' = RollbackApiLog("rollback_log.csv" \in files,
                                       ROLLBACK_FILE, row[w])
    /\ files' = files \cup {"rollback_log.csv"}
    /\ Return(w, 200)
    /\ UNCHANGED <<STAGING_FILE, AUDIT_FILE, uuid, created, resp, nops, call, df,
                   row, overlapped, ncalls, upvars, granted, export_temp>>

\* The files uploaded by concurrent requests: one whose prop_id reads as a
\* number and one without a prop_id.
ConcUploads == {f \in UploadFiles : f.filename \in {"parcel2.xml", "notes.txt"}}

NextConc ==
    \E w \in Requests :
        \/ \E f \in ConcUploads, adv \in ClockMoved : StageRead(w, f, adv)
        \/ StageWrite(w)
        \/ \E f \in ConcUploads, adv \in ClockMoved : ImportRead(w, f, adv)
        \/ ImportWrite(w)
        \/ \E x \in Ids : ApproveRead(w, x)
        \/ ApproveNotFound(w)
        \/ ApproveWriteStaging(w)
        \/ ApproveReadAudit(w)
        \/ ApproveWriteAudit(w)
        \/ \E x \in Ids : RollbackRead(w, x, FALSE)
        \/ \E x \in Ids : RollbackRead(w, x, TRUE)
        \/ RollbackNotFound(w)
        \/ RollbackWriteAudit(w)
        \/ RollbackReadLog(w)
        \/ RollbackWriteLog(w)
        \/ ApiWriteAudit(w)
        \/ ApiAppendLog(w)

SpecConc == Init /\ [][NextConc]_vars

(***************************************************************************)
(* Properties of concurrent requests.                                      *)
(***************************************************************************)

\* Both requests have returned from calls of operation op that ran
\* concurrently.
BothReturned(op) ==
    /\ \A w \in Requests : pc[w] = "idle" /\ result[w] # 0 /\ overlapped[w]
    /\ \A w \in Requests : call[w].op = op

\* C8: of two concurrent approve calls for the same upload_id exactly one
\* succeeds, the other answers 404, and the audit table ends with exactly one
\* row for the upload_id.
C8_OneApproveWins ==
    (BothReturned("approve") /\ call[1].id = call[2].id
        /\ (result[1] = 200 \/ result[2] = 200))
    => /\ {result[1], result[2]} = {200, 404}
       /\ Len(SelectRows(AUDIT_FILE, call[1].id)) = 1

\* C9: two concurrent successful calls of the same mutating operation for
\* different upload_ids both leave their effect in the final tables.
C9_NoLostUpdate ==
    \A op \in {"stage", "approve", "rollback"} :
        (/\ BothReturned(op)
         /\ call[1].id # call[2].id
         /\ \A w \in Requests : result[w] = 200)
        => \A w \in Requests :
             CASE op = "stage" -> SelectRows(STAGING_FILE, call[w].id) # <<>>
               [] op = "approve" -> SelectRows(AUDIT_FILE, call[w].id) # <<>>
               [] op = "rollback" ->
                    /\ SelectRows(ROLLBACK_FILE, call[w].id) # <<>>
                    /\ SelectRows(AUDIT_FILE, call[w].id) = <<>>

(***************************************************************************)
(* Properties of staging, permissions, export and startup.                 *)
(***************************************************************************)

\* A row without its prop_id text.
Entry(r) == [r EXCEPT !.prop_id = ""]

Entries(d) == [i \in DOMAIN d |-> Entry(d[i])]

\* C11: a successful stage call appends exactly one new row to the staging
\* table, with status PENDING and an upload_id no record created before has
\* (the rows already there keep their place and every field but the prop_id
\* text), and leaves the audit and rollback tables unchanged; a stage call
\* whose byte persistence fails leaves the staging table unchanged.
C11_StageAppendsOneRow ==
    [][(Called /\ resp'.op = "stage" /\ OwnAction("stage") \in granted')
       => IF resp'.code = 200
          THEN /\ Len(STAGING_FILE') = Len(STAGING_FILE) + 1
               /\ Entries(SubSeq(STAGING_FILE', 1, Len(STAGING_FILE)))
                    = Entries(STAGING_FILE)
               /\ LET new == STAGING_FILE'[Len(STAGING_FILE')]
                  IN  /\ new.upload_id = resp'.id
                      /\ new.status = "PENDING"
                      /\ new.upload_id \notin created
                      /\ \A m \in made : m.upload_id # new.upload_id
                      /\ SelectRows(AllRows, new.upload_id) = <<>>
               /\ AUDIT_FILE' = AUDIT_FILE
               /\ ROLLBACK_FILE' = ROLLBACK_FILE
          ELSE /\ resp'.code = 500
               /\ STAGING_FILE' = STAGING_FILE]_vars

\* A second upload has been staged behind the first.
C11_Witness ==
    /\ resp.op = "stage" /\ resp.code = 200
    /\ Len(STAGING_FILE) = 2
    /\ STAGING_FILE[2].upload_id = resp.id
    /\ STAGING_FILE[1].upload_id # resp.id

\* The row r carries the content_hash, property_id, filename and timestamp
\* its record was created with.
AsCreated(r) ==
    \E m \in made : /\ m.upload_id = r.upload_id
                    /\ m.sha256 = r.sha256
                    /\ m.prop_id = r.prop_id
                    /\ m.filename = r.filename
                    /\ m.timestamp = r.timestamp

\* C12: an approve or a rollback that finds every row of the three tables
\* with the content_hash, property_id, filename and timestamp its record was
\* created with leaves every row so.
C12_FieldsKeepCreationValues ==
    [][(/\ Called /\ resp'.op \in {"approve", "rollback"}
        /\ \A i \in DOMAIN AllRows : AsCreated(AllRows[i]))
       => \A i \in DOMAIN AllRows' : AsCreated(AllRows'[i])]_vars

\* The operations behind a permission check.
GatedOps == {"stage", "import", "list", "diff", "approve", "rollback", "export"}

\* C13: every operation is gated by the permission check for its own action:
\* it answers 403 exactly when the caller lacks that action, and then the
\* staging, audit and rollback tables are unchanged.
C13_GatedByOwnAction ==
    [][(Called /\ resp'.op \in GatedOps)
       => /\ (resp'.code = 403) <=> (OwnAction(resp'.op) \notin granted')
          /\ (resp'.code = 403) => UNCHANGED tables]_vars

\* An approve has been denied while uploads were in the tables.
C13_Witness ==
    /\ resp.op = "approve" /\ resp.code = 403
    /\ "approve" \notin granted
    /\ STAGING_FILE # <<>>

\* C14: a rollback(x) that succeeded, followed immediately by a second
\* rollback(x): the second call answers 404 and adds no row to the rollback
\* table.
C14_SecondRollbackNotFound ==
    [][(/\ resp.op = "rollback" /\ resp.code = 200
        /\ CalledBy("rollback", resp.id))
       => (resp'.code = 404 /\ ROLLBACK_FILE' = ROLLBACK_FILE)]_vars

\* A rollback of an upload that is in the rollback table has answered 404.
C14_Witness ==
    /\ resp.op = "rollback" /\ resp.code = 404
    /\ SelectRows(ROLLBACK_FILE, resp.id) # <<>>
    /\ SelectRows(AUDIT_FILE, resp.id) = <<>>

\* C15: a row written to the rollback table stays there, as it was written,
\* in every later state.
C15_RollbackRowsStay ==
    [][\A i \in DOMAIN ROLLBACK_FILE :
         /\ i \in DOMAIN ROLLBACK_FILE'
         /\ ROLLBACK_FILE'[i] = ROLLBACK_FILE[i]]_vars

\* The rows of export_temp.csv with upload_id x and log_type t.
Exported(e, x, t) == {i \in DOMAIN e : e[i].upload_id = x /\ e[i].log_type = t}

\* Upload x is the only record: it was staged, approved and rolled back.
StagedApprovedRolledBack(x) ==
    /\ created = {x}
    /\ \E m \in made : m.upload_id = x /\ m.status = "PENDING"
    /\ SelectRows(ROLLBACK_FILE, x) # <<>>

\* C16: the export lists exactly the rows of the three tables at the time of
\* the call, each tagged staged, approved or rolled_back by its table, ordered
\* by timestamp descending, without the storage-path column; after stage,
\* approve and rollback of a single record it holds one row, tagged
\* rolled_back.
C16_ExportListsTables ==
    [][(Called /\ resp'.op = "export" /\ resp'.code = 200)
       => LET e == export_temp'
          IN  /\ Len(e) = Len(AllRows)
              /\ \A x \in Ids :
                   /\ Cardinality(Exported(e, x, "staged"))
                        = Len(SelectRows(STAGING_FILE, x))
                   /\ Cardinality(Exported(e, x, "approved"))
                        = Len(SelectRows(AUDIT_FILE, x))
                   /\ Cardinality(Exported(e, x, "rolled_back"))
                        = Len(SelectRows(ROLLBACK_FILE, x))
              /\ \A i, j \in DOMAIN e : i < j => e[i].timestamp >= e[j].timestamp
              /\ \A i \in DOMAIN e : "file_path" \notin DOMAIN e[i]
              /\ \A x \in Ids :
                   StagedApprovedRolledBack(x)
                   => Len(e) = 1 /\ e[1].log_type = "rolled_back"]_vars

\* C17: diff(x) answers 200 exactly when x is in the staging table and 404
\* otherwise, and never changes the three tables; approve(x) of an x in the
\* staging table answers 200, whatever was called before.
C17_DiffAdvisory ==
    [][\A x \in Ids :
         /\ CalledBy("diff", x)
            => /\ resp'.code = IF SelectRows(STAGING_FILE, x) # <<>> THEN 200 ELSE 404
               /\ UNCHANGED tables
         /\ (CalledBy("approve", x) /\ SelectRows(STAGING_FILE, x) # <<>>)
            => resp'.code = 200]_vars

\* A diff of a staged upload has been answered while another upload, never
\* staged, was in the audit table.
C17_Witness ==
    /\ resp.op = "diff" /\ resp.code = 200
    /\ SelectRows(STAGING_FILE, resp.id) # <<>>
    /\ \E x \in created : x # resp.id /\ SelectRows(STAGING_FILE, x) = <<>>

\* The rows of the log file named file.
Table(file) ==
    CASE file = "staging_area.csv" -> STAGING_FILE
      [] file = "approved_changes.csv" -> AUDIT_FILE
      [] file = "rollback_log.csv" -> ROLLBACK_FILE

\* C18: the startup bootstrap creates each of the three tables with zero rows
\* only when the table does not exist, and leaves the rows of every existing
\* table unchanged, at whatever point it is run.
C18_BootstrapIdempotent ==
    [][(Called /\ resp'.op = "bootstrap")
       => /\ files' = LogFiles
          /\ \A file \in LogFiles :
               Table(file)' = IF file \in files THEN Table(file) ELSE <<>>]_vars

\* The bootstrap has run again with uploads in the tables.
C18_Witness ==
    /\ resp.op = "bootstrap"
    /\ nops > 2
    /\ STAGING_FILE # <<>>
    /\ AUDIT_FILE # <<>>

\* The uploaded file a row was made from.
Uploaded(r) == CHOOSE f \in UploadFiles : Sha256(f.bytes) = r.sha256

\* The lines of text with an identifier marker and a value after it.
Valued(text) == {i \in DOMAIN text : text[i].marker /\ Len(text[i].parts) > 1}

\* C19: stage creates a PENDING record for every uploaded content; its
\* property_id is UNKNOWN when the content has no identifier marker or cannot
\* be decoded, and the extracted value otherwise.
C19_UnknownWhenNoIdentifier ==
    [][(Called /\ resp'.op = "stage" /\ OwnAction("stage") \in granted')
       => /\ resp'.code = 200
          /\ LET new == STAGING_FILE'[Len(STAGING_FILE')]
                 f == Uploaded(new)
                 first == CHOOSE i \in Valued(f.text) : \A j \in Valued(f.text) : i <= j
             IN  /\ new.upload_id = resp'.id
                 /\ new.status = "PENDING"
                 /\ new.prop_id = IF Valued(f.text) = {} \/ ~ f.utf8
                                  THEN "UNKNOWN"
                                  ELSE Strip(f.text[first].parts[2])]_vars

\* C20: the status of a row agrees with the table that holds it.
C20_StatusAgreesWithTable ==
    /\ \A i \in DOMAIN STAGING_FILE : STAGING_FILE[i].status = "PENDING"
    /\ \A i \in DOMAIN AUDIT_FILE : AUDIT_FILE[i].status = "APPROVED"
    /\ \A i \in DOMAIN ROLLBACK_FILE : ROLLBACK_FILE[i].status = "ROLLED_BACK"

\* C21: for every record in any table, the bytes stored at its storage path
\* are the bytes its content_hash was computed from.
C21_StoredBytesMatchHash ==
    \A i \in DOMAIN AllRows :
        /\ AllRows[i].file_path \in DOMAIN UPLOAD_DIR
        /\ Sha256(UPLOAD_DIR[AllRows[i].file_path]) = AllRows[i].sha256

\* Upload x was created by a direct import.
Imported(x) == \E m \in made : m.upload_id = x /\ m.status = "APPROVED"

\* C22: a successful direct import appends exactly one new row to the audit
\* table, with a fresh upload_id and status APPROVED (the rows already there
\* keep their place and every field but the prop_id text), and leaves the
\* staging and rollback tables unchanged; an imported record is never in the
\* staging table; a rollback of an imported record that is in the audit
\* table answers 200 and moves its rows to the rollback table.
C22_ImportAppendsApproved ==
    [][/\ (Called /\ resp'.op = "import" /\ resp'.code = 200)
          => /\ Len(AUDIT_FILE') = Len(AUDIT_FILE) + 1
             /\ Entries(SubSeq(AUDIT_FILE', 1, Len(AUDIT_FILE))) = Entries(AUDIT_FILE)
             /\ LET new == AUDIT_FILE'[Len(AUDIT_FILE')]
                IN  /\ new.upload_id = resp'.id
                    /\ new.status = "APPROVED"
                    /\ new.upload_id \notin created
                    /\ SelectRows(AllRows, new.upload_id) = <<>>
             /\ STAGING_FILE' = STAGING_FILE
             /\ ROLLBACK_FILE' = ROLLBACK_FILE
       /\ \A x \in Ids : Imported(x)' => SelectRows(STAGING_FILE', x) = <<>>
       /\ \A x \in Ids :
            (Imported(x) /\ SelectRows(AUDIT_FILE, x) # <<>> /\ CalledBy("rollback", x))
            => /\ resp'.code = 200
               /\ SelectRows(AUDIT_FILE', x) = <<>>
               /\ Len(SelectRows(ROLLBACK_FILE', x))
                    = Len(SelectRows(ROLLBACK_FILE, x)) + Len(SelectRows(AUDIT_FILE, x))
               /\ STAGING_FILE' = STAGING_FILE]_vars

\* A directly imported upload was rolled back while a staged upload waited.
C22_Witness ==
    /\ resp.op = "rollback" /\ resp.code = 200
    /\ Imported(resp.id)
    /\ SelectRows(ROLLBACK_FILE, resp.id) # <<>>
    /\ STAGING_FILE # <<>>

\* C23: with the three log files in place, the dashboard server's
\* rollback_upload and the standalone rollback API, given the same upload_id
\* on the same audit and rollback tables, return the same status and leave
\* the same audit and rollback tables.
C23_RollbacksEquivalent ==
    files = LogFiles
    => \A x \in Ids :
         RollbackUploadResult(AUDIT_FILE, ROLLBACK_FILE, x)
           = RollbackApiResult(files, AUDIT_FILE, ROLLBACK_FILE, x)
====
